---------------------------- MODULE Spec2Model ----------------------------
(***************************************************************************)
(* LT fountain code (src/src/lt.rs): LtSource, LtClient, LtPacket, Block.  *)
(*                                                                         *)
(* Block ids are the u32 values 0..K-1 of the source.  A Block is a        *)
(* function 1..BLOCK_BYTES -> byte, a packet is a record                   *)
(* [combined_blocks |-> sequence of ids, data |-> Block].                  *)
(* decoded_blocks (a HashMap) is a function from the set of its keys,      *)
(* stale_packets (a HashSet) is a set, fresh_packets (the worklist Vec of  *)
(* receive_packet) is a sequence whose last element is the top.            *)
(***************************************************************************)
EXTENDS Integers, Sequences, FiniteSets, TLC

(* Width of a block.  The source fixes 1024 (lt.rs:253); the model keeps   *)
(* the code's arithmetic and scales the width down.                        *)
BLOCK_BYTES == 2

(* Longest input blob, in bytes. *)
MaxDataBytes == 5

(* Largest byte value of an input blob. *)
MaxByte == 2

(* Most receive_packet calls made on one Client. *)
MaxCalls == 3

(* Most receive_packet calls with packets of any content, and the longest  *)
(* id list of such a packet.                                               *)
MaxAnyCalls == 2

MaxIds == 2

VARIABLES
    data,            \* the input blob handed to LtSource::new
    metadata,        \* Metadata.data_bytes, shared by Source and Client
    blocks,          \* LtSource.blocks
    block_count,     \* LtClient.block_count
    decoded_blocks,  \* LtClient.decoded_blocks
    stale_packets,   \* LtClient.stale_packets
    fresh_packets,   \* local worklist of the receive_packet call in progress
    ret,             \* value returned to the caller by the last operation
    calls,           \* number of receive_packet calls started
    delivered,       \* set of the Source's packets delivered so far
    prev,            \* <<p, decoded, stale, again>>: the Source's packet of the
                     \* last call, the Client state when that call started, and
                     \* whether the call before it delivered the same packet
    lt_packet,       \* <<p>>: the LtPacket handed to the codec
    wire,            \* the byte vector the codec produced or is given
    relayed,         \* packets of try_create_packet on their way to Client B
    client_b         \* a second LtClient of the same Metadata, fed by the first

vars == <<data, metadata, blocks, block_count, decoded_blocks, stale_packets,
          fresh_packets, ret, calls, delivered, prev, lt_packet, wire, relayed, client_b>>

-----------------------------------------------------------------------------
(* Helpers on sequences and sets. *)

Min(a, b) == IF a < b THEN a ELSE b

Range(s) == {s[i] : i \in 1..Len(s)}

SeqsUpTo(S, n) == UNION {[1..m -> S] : m \in 0..n}

(* All orders in which the elements of a finite set can be iterated. *)
Orders(S) == {s \in [1..Cardinality(S) -> S] : Range(s) = S}

-----------------------------------------------------------------------------
(* Block and its XOR (lt.rs:255-293). *)

RECURSIVE XorByte(_, _)
XorByte(a, b) ==
    IF a = 0 THEN b
    ELSE IF b = 0 THEN a
    ELSE (((a % 2) + (b % 2)) % 2) + (2 * XorByte(a \div 2, b \div 2))

BlockNew == [i \in 1..BLOCK_BYTES |-> 0]

(* A combination that adds the bytes. *)
bitxor_sum(lhs, rhs) == [i \in 1..BLOCK_BYTES |-> (lhs[i] + rhs[i]) % 256]

bitxor(lhs, rhs) == [i \in 1..BLOCK_BYTES |-> XorByte(lhs[i], rhs[i])]

LtPacketNew(combined_blocks, blk) == [combined_blocks |-> combined_blocks, data |-> blk]

-----------------------------------------------------------------------------
(* Metadata and construction of Source and Client (lt.rs:24-58, 108-135). *)

(* BlockCount without the extra block of a partial chunk. *)
BlockCount_floor(data_bytes) ==
    data_bytes \div BLOCK_BYTES

BlockCount(data_bytes) ==
    (data_bytes \div BLOCK_BYTES) + Min(data_bytes % BLOCK_BYTES, 1)

(* data.chunks(BLOCK_BYTES), each chunk copied into a zeroed block. *)
SourceBlocks(d) ==
    LET chunks == (Len(d) + BLOCK_BYTES - 1) \div BLOCK_BYTES
    IN  [k \in 0..(chunks - 1) |->
            [i \in 1..BLOCK_BYTES |->
                IF k * BLOCK_BYTES + i <= Len(d) THEN d[k * BLOCK_BYTES + i] ELSE 0]]

(* The input blobs: every length 1..MaxDataBytes, the bytes running through *)
(* 0..MaxByte from every starting value, so that the blocks of one blob    *)
(* differ and a blob may end in zero bytes of its own.                     *)
Blob(n, s) == [i \in 1..n |-> (s + i) % (MaxByte + 1)]

Blobs == {Blob(n, s) : n \in 1..MaxDataBytes, s \in 0..MaxByte}

-----------------------------------------------------------------------------
(* Degree sampling and sub-selection (distributions.rs:35-54, lt.rs:61-71). *)

(* Distribution::query returns some i in 1..limit: every degree has a      *)
(* positive density, so each of them is a possible draw.                   *)
query(limit) == 1..limit

(* The draws of query_interior_rng_usize(i, len) for i = 0..n-1, as        *)
(* 1-based positions: the i-th draw lies in i..len.                        *)
Draws(len, n) == {js \in [1..n -> 1..len] : \A i \in 1..n : js[i] >= i}

(* A swap that copies s[j] over s[i] and loses s[i]. *)
swap_copy(s, i, j) == [s EXCEPT ![i] = s[j]]

swap(s, i, j) == [s EXCEPT ![i] = s[j], ![j] = s[i]]

RECURSIVE Shuffle(_, _, _, _)
Shuffle(s, i, n, js) ==
    IF i > n THEN s ELSE Shuffle(swap(s, i, js[i]), i + 1, n, js)

(* blocks after choose_blocks_to_combine, for the degree d that query      *)
(* returned and the draws js of the swap loop.                             *)
choose_blocks_to_combine(list, d, js) ==
    LET blocks_to_combine == Min(Len(list), d)
    IN  SubSeq(Shuffle(list, 1, blocks_to_combine, js), 1, blocks_to_combine)

(* new_block ^= lookup[id] for the ids of the list, in list order. *)
RECURSIVE XorAll(_, _, _)
XorAll(acc, ids, lookup) ==
    IF ids = <<>> THEN acc
    ELSE XorAll(bitxor(acc, lookup[Head(ids)]), Tail(ids), lookup)

-----------------------------------------------------------------------------
(* Return values of the queries. *)

NoPacket == LtPacketNew(<<>>, BlockNew)

Ret(op, some, packet, bytes, num, den) ==
    [op |-> op, some |-> some, packet |-> packet, bytes |-> bytes,
     num |-> num, den |-> den]

NoRet == Ret("none", FALSE, NoPacket, <<>>, 0, 1)

-----------------------------------------------------------------------------
(* Source and Client after construction from the same Metadata. *)

(* The state of a second LtClient after LtClient::new (lt.rs:108-135); *)
(* calls counts its receive_packet calls.                              *)
LtClientB ==
    [decoded_blocks |-> <<>>, stale_packets |-> {}, fresh_packets |-> <<>>,
     calls |-> 0]

Init ==
    /\ data \in Blobs
    /\ metadata = Len(data)
    /\ blocks = SourceBlocks(data)
    /\ block_count = BlockCount(metadata)
    /\ decoded_blocks = <<>>
    /\ stale_packets = {}
    /\ fresh_packets = <<>>
    /\ ret = NoRet
    /\ calls = 0
    /\ delivered = {}
    /\ prev = <<>>
    /\ lt_packet = <<>>
    /\ wire = <<>>
    /\ relayed = {}
    /\ client_b = LtClientB

Idle == fresh_packets = <<>>

-----------------------------------------------------------------------------
(* LtSource::create_packet (lt.rs:74-90). *)

(* A create_packet that leaves new_block as Block::new() made it. *)
create_packet_blank(d, js) ==
    LET block_count_ == Cardinality(DOMAIN blocks)
        ids == choose_blocks_to_combine([i \in 1..block_count_ |-> i - 1], d, js)
    IN  LtPacketNew(ids, BlockNew)

create_packet(d, js) ==
    LET block_count_ == Cardinality(DOMAIN blocks)
        ids == choose_blocks_to_combine([i \in 1..block_count_ |-> i - 1], d, js)
    IN  LtPacketNew(ids, XorAll(BlockNew, ids, blocks))

CreatePacket ==
    /\ Idle
    /\ \E d \in query(Cardinality(DOMAIN blocks)) :
         \E js \in Draws(Cardinality(DOMAIN blocks), Min(Cardinality(DOMAIN blocks), d)) :
            ret' = Ret("create_packet", TRUE, create_packet(d, js), <<>>, 0, 1)
    /\ UNCHANGED <<data, metadata, blocks, block_count, decoded_blocks,
                   stale_packets, fresh_packets, calls, delivered, prev,
                   lt_packet, wire, relayed, client_b>>

-----------------------------------------------------------------------------
(* LtClient::try_create_packet (lt.rs:140-159).  keys is the order in      *)
(* which the HashMap iterates its keys.                                    *)

(* A relay that combines every decoded block, not only the chosen ones. *)
try_create_packet_all(keys, d, js) ==
    LET ids == choose_blocks_to_combine(keys, d, js)
    IN  LtPacketNew(ids, XorAll(BlockNew, keys, decoded_blocks))

try_create_packet(keys, d, js) ==
    LET ids == choose_blocks_to_combine(keys, d, js)
    IN  LtPacketNew(ids, XorAll(BlockNew, ids, decoded_blocks))

TryCreatePacket ==
    /\ Idle
    /\ IF DOMAIN decoded_blocks = {}
       THEN ret' = Ret("try_create_packet", FALSE, NoPacket, <<>>, 0, 1)
       ELSE \E keys \in Orders(DOMAIN decoded_blocks) :
              \E d \in query(block_count) :
                \E js \in Draws(Len(keys), Min(Len(keys), d)) :
                   ret' = Ret("try_create_packet", TRUE,
                              try_create_packet(keys, d, js), <<>>, 0, 1)
    /\ UNCHANGED <<data, metadata, blocks, block_count, decoded_blocks,
                   stale_packets, fresh_packets, calls, delivered, prev,
                   lt_packet, wire, relayed, client_b>>

-----------------------------------------------------------------------------
(* LtClient::receive_packet (lt.rs:164-226). *)

(* The scan of packet.combined_blocks (lt.rs:172-195): xor collects the    *)
(* decoded ids met, remainder the first undecoded id, and the scan stops   *)
(* at the second undecoded id.                                             *)
RECURSIVE Scan(_, _, _, _)
Scan(decoded, ids, xor, remainder) ==
    IF ids = <<>>
    THEN [xor |-> xor, remainder |-> remainder, multiple_remaining |-> FALSE]
    ELSE IF Head(ids) \in DOMAIN decoded
    THEN Scan(decoded, Tail(ids), Append(xor, Head(ids)), remainder)
    ELSE IF remainder = <<>>
    THEN Scan(decoded, Tail(ids), xor, <<Head(ids)>>)
    ELSE [xor |-> xor, remainder |-> remainder, multiple_remaining |-> TRUE]

(* A reconstruction that forgets to remove the decoded blocks. *)
reconstruct_unreduced(p, xor, decoded) == p.data

(* data = packet.data ^ decoded[id] for the ids of xor (lt.rs:202-205). *)
reconstruct(p, xor, decoded) == XorAll(p.data, xor, decoded)

(* An insert that is lost. *)
Insert_lost(map, key, value) == map

(* An insert into a map that was emptied first. *)
Insert_alone(map, key, value) == [k \in {key} |-> value]

(* HashMap::insert. *)
Insert(map, key, value) ==
    [k \in (DOMAIN map) \cup {key} |-> IF k = key THEN value ELSE map[k]]

(* A cascade that looks at the first id of a stale packet only. *)
Refreshed_first(stale, block_id) ==
    {sp \in stale : sp.combined_blocks[1] = block_id}

(* A cascade that refreshes nothing. *)
Refreshed_none(stale, block_id) == {}

(* The stale packets that contain block_id (lt.rs:214-218). *)
Refreshed(stale, block_id) ==
    {sp \in stale : block_id \in Range(sp.combined_blocks)}

(* The call starts with the worklist vec![packet] (lt.rs:168).  The caller *)
(* keeps a copy of p, so it may deliver p again.                           *)
Receive(p) ==
    /\ Idle
    /\ fresh_packets' = <<p>>
    /\ calls' = calls + 1
    /\ ret' = Ret("receive_packet", TRUE, p, <<>>, 0, 1)
    /\ UNCHANGED <<data, metadata, blocks, block_count, decoded_blocks,
                   stale_packets, lt_packet, wire, relayed, client_b>>

(* The caller delivers a packet of the Source's create_packet: the one     *)
(* just returned, or once more the one just delivered.                     *)
ReceivePacket ==
    /\ calls < MaxCalls
    /\ ret.op \in {"create_packet", "receive_packet"}
    /\ Receive(ret.packet)
    /\ delivered' = delivered \cup {ret.packet}
    /\ prev' = <<ret.packet, decoded_blocks, stale_packets,
                 prev # <<>> /\ prev[1] = ret.packet>>

(* An iteration that reads the top of the worklist with last() where the *)
(* loop has pop(): a packet that goes to stale stays on the worklist.    *)
LoopStep_peeking ==
    /\ fresh_packets # <<>>
    /\ LET packet == fresh_packets[Len(fresh_packets)]
           rest == SubSeq(fresh_packets, 1, Len(fresh_packets) - 1)
           sc == Scan(decoded_blocks, packet.combined_blocks, <<>>, <<>>)
       IN  IF sc.multiple_remaining \/ sc.remainder = <<>>
           THEN /\ stale_packets' = stale_packets \cup {packet}
                /\ fresh_packets' = fresh_packets
                /\ UNCHANGED decoded_blocks
           ELSE LET block_id == sc.remainder[1]
                IN  IF block_id \notin DOMAIN decoded_blocks
                    THEN /\ decoded_blocks' =
                              Insert(decoded_blocks, block_id,
                                     reconstruct(packet, sc.xor, decoded_blocks))
                         /\ stale_packets' =
                              stale_packets \ Refreshed(stale_packets, block_id)
                         /\ \E refreshed_packets \in
                                  Orders(Refreshed(stale_packets, block_id)) :
                               fresh_packets' = rest \o refreshed_packets
                    ELSE /\ fresh_packets' = rest
                         /\ UNCHANGED <<decoded_blocks, stale_packets>>
    /\ UNCHANGED <<data, metadata, blocks, block_count, ret, calls, delivered,
                   prev, lt_packet, wire, relayed, client_b>>

(* One iteration of the while loop (lt.rs:171-225). *)
LoopStep ==
    /\ fresh_packets # <<>>
    /\ LET packet == fresh_packets[Len(fresh_packets)]
           rest == SubSeq(fresh_packets, 1, Len(fresh_packets) - 1)
           sc == Scan(decoded_blocks, packet.combined_blocks, <<>>, <<>>)
       IN  IF sc.multiple_remaining \/ sc.remainder = <<>>
           THEN /\ stale_packets' = stale_packets \cup {packet}
                /\ fresh_packets' = rest
                /\ UNCHANGED decoded_blocks
           ELSE LET block_id == sc.remainder[1]
                IN  IF block_id \notin DOMAIN decoded_blocks
                    THEN /\ decoded_blocks' =
                              Insert(decoded_blocks, block_id,
                                     reconstruct(packet, sc.xor, decoded_blocks))
                         /\ stale_packets' =
                              stale_packets \ Refreshed(stale_packets, block_id)
                         /\ \E refreshed_packets \in
                                  Orders(Refreshed(stale_packets, block_id)) :
                               fresh_packets' = rest \o refreshed_packets
                    ELSE /\ fresh_packets' = rest
                         /\ UNCHANGED <<decoded_blocks, stale_packets>>
    /\ UNCHANGED <<data, metadata, blocks, block_count, ret, calls, delivered,
                   prev, lt_packet, wire, relayed, client_b>>

-----------------------------------------------------------------------------
(* LtClient::get_result (lt.rs:228-245) and decoding_progress (247-249). *)

(* block_bytes after the loop over 0..block_count has reached id i. *)
RECURSIVE Extend(_, _, _)
Extend(decoded, i, n) ==
    IF i >= n THEN <<>> ELSE decoded[i] \o Extend(decoded, i + 1, n)

(* A result that keeps the padding of the last block. *)
truncate_keep(v, len) == v

truncate(v, len) == IF len < Len(v) THEN SubSeq(v, 1, len) ELSE v

(* A get_result that only counts the entries and reads a missing block as *)
(* the zero block.                                                         *)
get_result_counting(decoded, count, data_bytes) ==
    IF Cardinality(DOMAIN decoded) < count
    THEN [some |-> FALSE, bytes |-> <<>>]
    ELSE [some |-> TRUE,
          bytes |-> truncate(
              Extend([i \in 0..(count - 1) |->
                         IF i \in DOMAIN decoded THEN decoded[i] ELSE BlockNew],
                     0, count),
              data_bytes)]

get_result(decoded, count, data_bytes) ==
    IF Cardinality(DOMAIN decoded) < count
    THEN [some |-> FALSE, bytes |-> <<>>]
    ELSE IF \E i \in 0..(count - 1) : i \notin DOMAIN decoded
    THEN [some |-> FALSE, bytes |-> <<>>]
    ELSE [some |-> TRUE, bytes |-> truncate(Extend(decoded, 0, count), data_bytes)]

(* A get_result that takes the stale pool with it. *)
GetResult_draining ==
    /\ Idle
    /\ LET r == get_result(decoded_blocks, block_count, metadata)
       IN  ret' = Ret("get_result", r.some, NoPacket, r.bytes, 0, 1)
    /\ stale_packets' = {}
    /\ UNCHANGED <<data, metadata, blocks, block_count, decoded_blocks,
                   fresh_packets, calls, delivered, prev, lt_packet, wire, relayed, client_b>>

GetResult ==
    /\ Idle
    /\ LET r == get_result(decoded_blocks, block_count, metadata)
       IN  ret' = Ret("get_result", r.some, NoPacket, r.bytes, 0, 1)
    /\ UNCHANGED <<data, metadata, blocks, block_count, decoded_blocks,
                   stale_packets, fresh_packets, calls, delivered, prev,
                   lt_packet, wire, relayed, client_b>>

(* A progress that reports the share still missing. *)
decoding_progress_missing(decoded, count) ==
    [num |-> count - Cardinality(DOMAIN decoded), den |-> count]

(* The quotient len / block_count of two f64, kept as the fraction. *)
decoding_progress(decoded, count) ==
    [num |-> Cardinality(DOMAIN decoded), den |-> count]

DecodingProgress ==
    /\ Idle
    /\ LET r == decoding_progress(decoded_blocks, block_count)
       IN  ret' = Ret("decoding_progress", TRUE, NoPacket, <<>>, r.num, r.den)
    /\ UNCHANGED <<data, metadata, blocks, block_count, decoded_blocks,
                   stale_packets, fresh_packets, calls, delivered, prev,
                   lt_packet, wire, relayed, client_b>>

-----------------------------------------------------------------------------
(* A Source and a Client of the same Metadata: the Client receives only    *)
(* packets of the Source's create_packet.                                  *)

Next ==
    \/ CreatePacket
    \/ ReceivePacket
    \/ LoopStep
    \/ GetResult
    \/ DecodingProgress
    \/ TryCreatePacket

Spec == Init /\ [][Next]_vars

-----------------------------------------------------------------------------
(* A Client alone, fed packets of any content.  LtPacket::from_bytes is    *)
(* public and checks neither the ids nor the payload, so a caller can hand *)
(* receive_packet ids outside 0..K-1, repeated ids, no ids at all, and a   *)
(* payload unrelated to any source.                                        *)

AnyBlocks == {[i \in 1..BLOCK_BYTES |-> b] : b \in {0, 255}}

AnyPackets(count) ==
    {LtPacketNew(ids, blk) : ids \in SeqsUpTo(0..count, MaxIds), blk \in AnyBlocks}

ReceiveAny ==
    /\ calls < MaxAnyCalls
    /\ \E p \in AnyPackets(block_count) : Receive(p)
    /\ UNCHANGED <<delivered, prev>>

InitAny ==
    /\ Init
    /\ data = Blob(Len(data), 0)

NextAny ==
    \/ ReceiveAny
    \/ LoopStep
    \/ GetResult
    \/ DecodingProgress
    \/ TryCreatePacket

SpecAny == InitAny /\ [][NextAny]_vars

(* receive_packet runs its loop to the end once called: the thread that *)
(* made the call keeps taking iterations while the worklist has packets. *)
SpecAnyLive == SpecAny /\ WF_vars(LoopStep)

SpecLive == Spec /\ WF_vars(LoopStep)

(* A Client that keeps receiving the packets of the Source for as long as *)
(* the Source makes them: each packet of create_packet is delivered.  The *)
(* number of calls is not bounded, the size of the blob is.               *)
MaxStreamBytes == 4

InitStream ==
    /\ Init
    /\ Len(data) <= MaxStreamBytes

StreamReceive ==
    /\ Idle
    /\ ret.op = "create_packet"
    /\ fresh_packets' = <<ret.packet>>
    /\ ret' = Ret("receive_packet", TRUE, ret.packet, <<>>, 0, 1)
    /\ UNCHANGED <<data, metadata, blocks, block_count, decoded_blocks,
                   stale_packets, calls, delivered, prev, lt_packet, wire, relayed, client_b>>

NextStream ==
    \/ CreatePacket
    \/ StreamReceive
    \/ LoopStep
    \/ GetResult

SpecStream == InitStream /\ [][NextStream]_vars /\ WF_vars(LoopStep)

-----------------------------------------------------------------------------
(* Packet codec (lt.rs:340-375): big-endian u32 count, big-endian u32 ids, *)
(* then the BLOCK_BYTES bytes of the payload.                              *)

(* A little-endian write. *)
write_u32_le(v) ==
    <<v % 256, (v \div 256) % 256, (v \div 65536) % 256, (v \div 16777216) % 256>>

(* WriteBytesExt::write_u32::<BigEndian>. *)
write_u32(v) ==
    <<(v \div 16777216) % 256, (v \div 65536) % 256, (v \div 256) % 256, v % 256>>

(* ReadBytesExt::read_u32::<BigEndian> at cursor position pos (0-based):   *)
(* an error when fewer than four bytes are left.                           *)
read_u32(bytes, pos) ==
    IF pos + 4 > Len(bytes)
    THEN [ok |-> FALSE, value |-> 0]
    ELSE [ok |-> TRUE,
          value |-> (bytes[pos + 1] * 16777216) + (bytes[pos + 2] * 65536)
                    + (bytes[pos + 3] * 256) + bytes[pos + 4]]

RECURSIVE WriteIds(_)
WriteIds(ids) ==
    IF ids = <<>> THEN <<>> ELSE write_u32(Head(ids)) \o WriteIds(Tail(ids))

(* self.combined_blocks.len() as u32 keeps the length: the lists of the    *)
(* model are far shorter than 2^32.                                        *)
to_bytes(p) ==
    write_u32(Len(p.combined_blocks)) \o WriteIds(p.combined_blocks) \o p.data

(* The loop for _ in 0..block_count of from_bytes, with `left` ids still   *)
(* to read at cursor position pos; it stops at the first failed read.      *)
RECURSIVE ReadIds(_, _, _, _)
ReadIds(bytes, pos, left, acc) ==
    IF left = 0 THEN [ok |-> TRUE, ids |-> acc, pos |-> pos]
    ELSE LET r == read_u32(bytes, pos)
         IN  IF ~r.ok THEN [ok |-> FALSE, ids |-> acc, pos |-> pos]
             ELSE ReadIds(bytes, pos + 4, left - 1, Append(acc, r.value))

(* A from_bytes that keeps the zeroes of block_data where the payload has  *)
(* run out.                                                                *)
from_bytes_padded(bytes) ==
    LET cnt == read_u32(bytes, 0)
    IN  IF ~cnt.ok THEN [ok |-> FALSE, packet |-> NoPacket]
        ELSE LET r == ReadIds(bytes, 4, cnt.value, <<>>)
             IN  IF ~r.ok
                 THEN [ok |-> FALSE, packet |-> NoPacket]
                 ELSE [ok |-> TRUE,
                       packet |-> LtPacketNew(r.ids,
                                     [i \in 1..BLOCK_BYTES |->
                                         IF r.pos + i <= Len(bytes)
                                         THEN bytes[r.pos + i] ELSE 0])]

from_bytes(bytes) ==
    LET cnt == read_u32(bytes, 0)
    IN  IF ~cnt.ok THEN [ok |-> FALSE, packet |-> NoPacket]
        ELSE LET r == ReadIds(bytes, 4, cnt.value, <<>>)
             IN  IF ~r.ok \/ r.pos + BLOCK_BYTES > Len(bytes)
                 THEN [ok |-> FALSE, packet |-> NoPacket]
                 ELSE [ok |-> TRUE,
                       packet |-> LtPacketNew(r.ids,
                                     [i \in 1..BLOCK_BYTES |-> bytes[r.pos + i]])]

(* Ids and payloads that exercise every byte of an encoded u32 (the ids    *)
(* stop at 2^31 - 1, the largest integer TLC represents).                  *)
CodecIds == {0, 1, 256, 65791, 2147483647}

CodecBlocks == [1..BLOCK_BYTES -> {0, 255}]

CodecPackets ==
    {LtPacketNew(ids, blk) : ids \in SeqsUpTo(CodecIds, MaxIds), blk \in CodecBlocks}

ToBytes ==
    /\ lt_packet # <<>>
    /\ ret.op = "none"
    /\ wire' = to_bytes(lt_packet[1])
    /\ ret' = Ret("to_bytes", TRUE, NoPacket, wire', 0, 1)
    /\ UNCHANGED <<data, metadata, blocks, block_count, decoded_blocks,
                   stale_packets, fresh_packets, calls, delivered, prev,
                   lt_packet, relayed, client_b>>

(* The caller keeps only the first k bytes of the vector. *)
Truncate ==
    /\ ret.op = "to_bytes"
    /\ \E k \in 0..(Len(wire) - 1) : wire' = SubSeq(wire, 1, k)
    /\ ret' = Ret("truncate", TRUE, NoPacket, wire', 0, 1)
    /\ UNCHANGED <<data, metadata, blocks, block_count, decoded_blocks,
                   stale_packets, fresh_packets, calls, delivered, prev,
                   lt_packet, relayed, client_b>>

FromBytes ==
    /\ ret.op \in {"to_bytes", "truncate"}
    /\ LET r == from_bytes(wire)
       IN  ret' = Ret("from_bytes", r.ok, r.packet, <<>>, 0, 1)
    /\ UNCHANGED <<data, metadata, blocks, block_count, decoded_blocks,
                   stale_packets, fresh_packets, calls, delivered, prev,
                   lt_packet, wire, relayed, client_b>>

InitCodec ==
    /\ data = Blob(1, 1)
    /\ metadata = Len(data)
    /\ blocks = SourceBlocks(data)
    /\ block_count = BlockCount(metadata)
    /\ decoded_blocks = <<>>
    /\ stale_packets = {}
    /\ fresh_packets = <<>>
    /\ ret = NoRet
    /\ calls = 0
    /\ delivered = {}
    /\ prev = <<>>
    /\ lt_packet \in {<<p>> : p \in CodecPackets}
    /\ wire = <<>>
    /\ relayed = {}
    /\ client_b = LtClientB

NextCodec ==
    \/ ToBytes
    \/ Truncate
    \/ FromBytes

SpecCodec == InitCodec /\ [][NextCodec]_vars

-----------------------------------------------------------------------------
(* RobustSolitonDistribution::robustness_probability_to_add                *)
(* (distributions.rs:126-141).  A u32 is written as its four base-256      *)
(* digits, most significant first, so that limit and point * limit keep    *)
(* their 32 bits.                                                          *)

RobustLimits == {2, 17, 1000, 65536, 8388608, 10000000, 500000000}

(* switch_point = (limit as f64 / expected_ripple_size) as u32 with        *)
(* expected_ripple_size = 0.3 * ln(limit / 0.1) * sqrt(limit), evaluated   *)
(* in f64 as distributions.rs:128-130, 167-179 evaluate it.                *)
SwitchPoints ==
    (1 :> 1) @@ (2 :> 1) @@ (3 :> 1) @@ (4 :> 1) @@ (5 :> 1) @@ (17 :> 2) @@ (1000 :> 11) @@ (65536 :> 63) @@
    (8388608 :> 529) @@ (10000000 :> 572) @@ (500000000 :> 3337)

u32_digits(v) ==
    <<(v \div (2 ^ 24)) % 256, (v \div (2 ^ 16)) % 256, (v \div (2 ^ 8)) % 256, v % 256>>

(* Column k (k = 0 the lowest) of the long multiplication of a and b. *)
MulColumn(a, b, k) ==
    LET term(i) == IF (k - i) \in 0..3 THEN a[4 - i] * b[4 - (k - i)] ELSE 0
    IN  term(0) + term(1) + term(2) + term(3)

RECURSIVE MulCarry(_, _, _)
MulCarry(a, b, k) ==
    IF k = 0 THEN 0
    ELSE (MulColumn(a, b, k - 1) + MulCarry(a, b, k - 1)) \div 256

MulDigit(a, b, k) == (MulColumn(a, b, k) + MulCarry(a, b, k)) % 256

(* point * limit in u32: the low 32 bits of the product, and whether the *)
(* product has bits above them.                                          *)
u32_mul(a, b) ==
    [value |-> <<MulDigit(a, b, 3), MulDigit(a, b, 2), MulDigit(a, b, 1), MulDigit(a, b, 0)>>,
     overflow |-> \E k \in 4..7 : MulDigit(a, b, k) # 0]

(* The f64 that is returned, by the branch that made it: the quotient of *)
(* expected_ripple_size and the product, the value at the switch point,  *)
(* or 0.0.  overflow_checks: whether the build checks integer overflow   *)
(* (it then panics with "attempt to multiply with overflow") or wraps.   *)
robustness_probability_to_add(point, limit, overflow_checks) ==
    LET switch_point == SwitchPoints[limit]
        product == u32_mul(u32_digits(point), u32_digits(limit))
    IN  IF point = 0 \/ point > limit
        THEN [panic |-> TRUE, branch |-> "point out of range", product |-> <<>>]
        ELSE IF point < switch_point
        THEN IF product.overflow /\ overflow_checks
             THEN [panic |-> TRUE, branch |-> "ripple / product", product |-> <<>>]
             ELSE [panic |-> FALSE, branch |-> "ripple / product",
                   product |-> product.value]
        ELSE IF point = switch_point
        THEN [panic |-> FALSE, branch |-> "ripple * ln(ripple / delta) / limit",
              product |-> <<>>]
        ELSE [panic |-> FALSE, branch |-> "0.0", product |-> <<>>]

(* A u64 or u32 beyond the integers at hand: <<hi, lo>> is hi * 2^24 + lo. *)
Limb == 2 ^ 24

u64(n) == <<n \div Limb, n % Limb>>

u64_lt(a, b) == a[1] < b[1] \/ (a[1] = b[1] /\ a[2] < b[2])

(* a + n and a * n for a small n. *)
u64_add(a, n) ==
    LET lo == a[2] + n
    IN  <<a[1] + (lo \div Limb), lo % Limb>>

u64_mul(a, n) ==
    LET lo == a[2] * n
    IN  <<(a[1] * n) + (lo \div Limb), lo % Limb>>

(* a / n and a % n for a small n. *)
u64_div(a, n) ==
    LET low == ((a[1] % n) * Limb) + a[2]
    IN  [quot |-> <<a[1] \div n, low \div n>>, rem |-> low % n]

(* u32::max_value() = 2^32 - 1. *)
u32_max_value == <<255, Limb - 1>>

(* The four base-256 digits of `block_count as u32`. *)
as_u32(w) == <<w[1] % 256, w[2] \div (2 ^ 16), (w[2] \div (2 ^ 8)) % 256, w[2] % 256>>

(* switch_point for two limits of 2^31 and more, evaluated as SwitchPoints. *)
SwitchPointsHigh ==
    (<<128, 0>> :> 6493) @@ (<<255, Limb - 2>> :> 8922)

switch_point(limit) ==
    IF limit[1] < 128 THEN SwitchPoints[(limit[1] * Limb) + limit[2]]
    ELSE SwitchPointsHigh[limit]

(* Whether a call of robustness_probability_to_add(point, limit) with some *)
(* point of 1..limit multiplies beyond 32 bits.  Distribution::new calls   *)
(* density for every point of 1..limit (distributions.rs:23-24) and        *)
(* normalization_factor calls it again for each (116-124); the product     *)
(* grows with the point, so the largest point below the switch point       *)
(* decides.  density makes no such call for limit 1 (150-151).             *)
MulOverflows(limit) ==
    /\ limit # u64(1)
    /\ switch_point(limit) > 1
    /\ u32_mul(u32_digits(switch_point(limit) - 1), as_u32(limit)).overflow

-----------------------------------------------------------------------------
(* Construction: Metadata::new, LtSource::new and LtClient::new with their *)
(* errors (metadata.rs:7-17, lt.rs:24-58, 108-135, lib.rs CreationError)   *)
(* and the ways they end without returning.  Sizes and block counts are    *)
(* u64 and go up to 2^32 blocks and beyond, so they are written <<hi, lo>>, *)
(* and a byte buffer is vec![byte; len], written by its byte and its len.  *)

Metadata_new(data_bytes) == [data_bytes |-> data_bytes]

Metadata_data_bytes(md) == md.data_bytes

vec(byte, len) == [byte |-> byte, len |-> len]

(* (data_bytes / BLOCK_BYTES) + min(data_bytes % BLOCK_BYTES, 1) in u64 *)
(* (lt.rs:35-37, 119-121): the high limb divided, its remainder carried *)
(* into the low limb.                                                   *)
BlockCountU64(data_bytes) ==
    LET carried == ((data_bytes[1] % BLOCK_BYTES) * Limb) + data_bytes[2]
    IN  u64_add(<<data_bytes[1] \div BLOCK_BYTES, 0>>, BlockCount(carried))

(* data.chunks(BLOCK_BYTES) of vec![byte; len], each chunk copied into a *)
(* zeroed block (lt.rs:41-48): count blocks, all of them `full` but the  *)
(* last, which is `last`.                                                *)
SourceBlocksOfVec(d) ==
    LET chunks == u64_div(d.len, BLOCK_BYTES)
    IN  [count |-> u64_add(chunks.quot, IF chunks.rem > 0 THEN 1 ELSE 0),
         full |-> [i \in 1..BLOCK_BYTES |-> d.byte],
         last |-> [i \in 1..BLOCK_BYTES |->
                     IF chunks.rem = 0 \/ i <= chunks.rem THEN d.byte ELSE 0]]

(* No Source: no blocks. *)
NoBlocks == SourceBlocksOfVec(vec(0, u64(0)))

Created(component) ==
    [ok |-> TRUE, error |-> "", panic |-> "", component |-> component]

CreationError(kind) ==
    [ok |-> FALSE, error |-> kind, panic |-> "", component |-> <<>>]

(* The constructor does not return: the thread panics or the process *)
(* is aborted, with this message.                                    *)
Panic(message) ==
    [ok |-> FALSE, error |-> "", panic |-> message, component |-> <<>>]

(* How Distribution::new(density_function, limit) ends                     *)
(* (distributions.rs:16-33).  What it does beyond returning depends on the *)
(* build and the machine:                                                  *)
(*   rng_ok           StdRng::new() succeeds (line 17);                    *)
(*   alloc_ok         the allocator grants Vec::with_capacity(limit)       *)
(*                    (line 19); refused, the process is aborted;          *)
(*   overflow_checks  the build checks integer overflow: limit + 1         *)
(*                    (line 23) and point * limit (line 135) then panic,   *)
(*                    and otherwise wrap.  With limit + 1 wrapped to 0 the *)
(*                    loop has no iteration and the table is [0.0].        *)
Distribution_new_outcome(limit, rng_ok, overflow_checks, alloc_ok) ==
    IF ~rng_ok THEN "Err"
    ELSE IF ~alloc_ok THEN "memory allocation failed"
    ELSE IF limit = u32_max_value
         THEN IF overflow_checks THEN "attempt to add with overflow" ELSE "Ok"
    ELSE IF overflow_checks /\ MulOverflows(limit)
         THEN "attempt to multiply with overflow"
    ELSE "Ok"

(* An LtSource::new that trusts the length Metadata states. *)
LtSource_new_trusting(md, d, rng_ok, overflow_checks, alloc_ok) ==
    LET data_bytes == Metadata_data_bytes(md)
        count == BlockCountU64(data_bytes)
        distribution ==
            Distribution_new_outcome(count, rng_ok, overflow_checks, alloc_ok)
    IN  IF data_bytes = u64(0) THEN CreationError("DataZeroBytes")
        ELSE IF u64_lt(u32_max_value, count) THEN CreationError("DataTooBig")
        ELSE IF ~alloc_ok THEN Panic("memory allocation failed")
        ELSE IF distribution = "Err"
             THEN CreationError("RandomInitializationError")
        ELSE IF distribution # "Ok" THEN Panic(distribution)
        ELSE Created([blocks |-> SourceBlocksOfVec(d)])

(* LtSource::new (lt.rs:24-58).  Vec::with_capacity(block_count) of line 41 *)
(* comes before Distribution::new; alloc_ok stands for this request too.   *)
LtSource_new(md, d, rng_ok, overflow_checks, alloc_ok) ==
    LET data_bytes == Metadata_data_bytes(md)
        count == BlockCountU64(data_bytes)
        distribution ==
            Distribution_new_outcome(count, rng_ok, overflow_checks, alloc_ok)
    IN  IF data_bytes = u64(0) THEN CreationError("DataZeroBytes")
        ELSE IF data_bytes # d.len THEN CreationError("InvalidMetadata")
        ELSE IF u64_lt(u32_max_value, count) THEN CreationError("DataTooBig")
        ELSE IF ~alloc_ok THEN Panic("memory allocation failed")
        ELSE IF distribution = "Err"
             THEN CreationError("RandomInitializationError")
        ELSE IF distribution # "Ok" THEN Panic(distribution)
        ELSE Created([blocks |-> SourceBlocksOfVec(d)])

(* LtClient::new (lt.rs:108-135). *)
LtClient_new(md, rng_ok, overflow_checks, alloc_ok) ==
    LET data_bytes == Metadata_data_bytes(md)
        count == BlockCountU64(data_bytes)
        distribution ==
            Distribution_new_outcome(count, rng_ok, overflow_checks, alloc_ok)
    IN  IF data_bytes = u64(0) THEN CreationError("DataZeroBytes")
        ELSE IF u64_lt(u32_max_value, count) THEN CreationError("DataTooBig")
        ELSE IF distribution = "Err"
             THEN CreationError("RandomInitializationError")
        ELSE IF distribution # "Ok" THEN Panic(distribution)
        ELSE Created([metadata |-> md,
                      block_count |-> count,
                      decoded_blocks |-> <<>>,
                      stale_packets |-> {}])

(* What a constructor hands back, Ok (some) or Err(error), or the message *)
(* it ends with instead of returning (panic).                             *)
RetNew(op, r) ==
    [op |-> op, some |-> r.ok, error |-> r.error, panic |-> r.panic,
     packet |-> NoPacket, bytes |-> <<>>, num |-> 0, den |-> 1]

(* Block counts that the sizes below yield: small ones, 8388608 (the    *)
(* product point * limit passes 2^32 at point 512), 2^31, 2^32 - 2,     *)
(* 2^32 - 1 = u32::max_value() and 2^32.  Each is one more than a count *)
(* listed here.                                                         *)
NewCounts ==
    {u64(0), u64(1), u64(16), u64(8388607), <<127, Limb - 1>>,
     <<255, Limb - 3>>, <<255, Limb - 2>>, <<255, Limb - 1>>}

(* Sizes in bytes: 0, and for each count above the first size and the *)
(* last size of the next count.                                       *)
NewSizes ==
    {u64(0)} \cup {u64_add(u64_mul(c, BLOCK_BYTES), 1) : c \in NewCounts}
             \cup {u64_mul(u64_add(c, 1), BLOCK_BYTES) : c \in NewCounts}

(* The caller has a byte buffer and the Metadata of its length, as the *)
(* tests build them; no Source and no Client exists yet.              *)
InitNew ==
    /\ data \in {vec(1, len) : len \in NewSizes}
    /\ metadata = Metadata_data_bytes(Metadata_new(data.len))
    /\ blocks = NoBlocks
    /\ block_count = u64(0)
    /\ decoded_blocks = <<>>
    /\ stale_packets = {}
    /\ fresh_packets = <<>>
    /\ ret = NoRet
    /\ calls = 0
    /\ delivered = {}
    /\ prev = <<>>
    /\ lt_packet = <<>>
    /\ wire = <<>>
    /\ relayed = {}
    /\ client_b = LtClientB

(* ret.bytes is the size the Metadata was made of. *)
MetadataNew ==
    /\ ret.op \in {"none", "Metadata::new"}
    /\ \E n \in NewSizes :
         /\ metadata' = Metadata_data_bytes(Metadata_new(n))
         /\ ret' = Ret("Metadata::new", TRUE, NoPacket, n, 0, 1)
    /\ UNCHANGED <<data, blocks, block_count, decoded_blocks, stale_packets,
                   fresh_packets, calls, delivered, prev, lt_packet, wire, relayed, client_b>>

LtSourceNew ==
    /\ ret.op \in {"none", "Metadata::new"}
    /\ \E rng_ok \in BOOLEAN, overflow_checks \in BOOLEAN, alloc_ok \in BOOLEAN :
         LET r == LtSource_new(Metadata_new(metadata), data, rng_ok,
                               overflow_checks, alloc_ok)
         IN  /\ blocks' = IF r.ok THEN r.component.blocks ELSE blocks
             /\ ret' = RetNew("LtSource::new", r)
    /\ UNCHANGED <<data, metadata, block_count, decoded_blocks, stale_packets,
                   fresh_packets, calls, delivered, prev, lt_packet, wire, relayed, client_b>>

(* The caller may have built the Source first.  A panic or an abort of   *)
(* LtSource::new ends the run, and a Source of u32::max_value() blocks  *)
(* or of a block count whose product overflows exists only in a build   *)
(* without overflow checks.                                             *)
LtClientNew ==
    /\ ret.op \in {"none", "Metadata::new", "LtSource::new"}
    /\ ret.op = "LtSource::new" => ret.panic = ""
    /\ \E rng_ok \in BOOLEAN, overflow_checks \in BOOLEAN, alloc_ok \in BOOLEAN :
         /\ (ret.op = "LtSource::new" /\ ret.some
               /\ (\/ BlockCountU64(metadata) = u32_max_value
                   \/ MulOverflows(BlockCountU64(metadata)))) => ~overflow_checks
         /\ LET r == LtClient_new(Metadata_new(metadata), rng_ok,
                                  overflow_checks, alloc_ok)
            IN  /\ IF r.ok
                   THEN /\ block_count' = r.component.block_count
                        /\ decoded_blocks' = r.component.decoded_blocks
                        /\ stale_packets' = r.component.stale_packets
                   ELSE UNCHANGED <<block_count, decoded_blocks, stale_packets>>
                /\ ret' = RetNew("LtClient::new", r)
    /\ UNCHANGED <<data, metadata, blocks, fresh_packets, calls, delivered,
                   prev, lt_packet, wire, relayed, client_b>>

NextNew ==
    \/ MetadataNew
    \/ LtSourceNew
    \/ LtClientNew

SpecNew == InitNew /\ [][NextNew]_vars

-----------------------------------------------------------------------------
(* Degree sampling in f64 (distributions.rs:16-45).  An f64 of [0, 2) is *)
(* written in units of 2^-64, which hold every value met here exactly,   *)
(* as three limbs <<hi, mid, lo>> of 24 bits, hi holding the bit of 2^0. *)

QueryLimits == {1, 2, 3, 17}

(* RobustSolitonDistribution::density(point, limit) with the defaults     *)
(* failure_probability 0.1 and hint_constant 0.3 (lt.rs:15-16), evaluated *)
(* in f64 as distributions.rs:82-179 evaluates it, one row per point:     *)
(* the bit of 2^0, then the fraction as 16 hexadecimal digits.            *)
DensityDigits ==
    (1 :> <<
           <<1, 0, 0, 0, 0, 0, 0, 0, 0, 0, 0, 0, 0, 0, 0, 0, 0>>>>) @@
    (2 :> <<
           <<0, 12, 15, 1, 0, 5, 11, 5, 12, 2, 13, 10, 15, 10, 0, 0, 0>>,
           <<0, 3, 0, 14, 15, 10, 4, 10, 3, 13, 2, 5, 0, 6, 2, 0, 0>>>>) @@
    (3 :> <<
           <<0, 12, 0, 9, 9, 12, 11, 10, 6, 14, 1, 13, 9, 6, 8, 0, 0>>,
           <<0, 2, 15, 8, 12, 10, 7, 4, 2, 13, 6, 9, 12, 15, 4, 0, 0>>,
           <<0, 0, 15, 13, 9, 8, 13, 1, 6, 4, 7, 8, 9, 10, 6, 8, 0>>>>) @@
    (17 :> <<
           <<0, 2, 5, 13, 10, 7, 11, 8, 9, 9, 14, 0, 7, 9, 4, 0, 0>>,
           <<0, 11, 3, 8, 8, 12, 15, 3, 1, 7, 5, 5, 10, 9, 0, 0, 0>>,
           <<0, 0, 14, 9, 6, 3, 9, 1, 10, 0, 9, 11, 14, 7, 7, 8, 0>>,
           <<0, 0, 7, 4, 11, 1, 12, 8, 13, 0, 4, 13, 15, 3, 11, 12, 0>>,
           <<0, 0, 4, 6, 0, 4, 4, 5, 4, 9, 12, 8, 5, 15, 0, 12, 0>>,
           <<0, 0, 2, 14, 10, 13, 8, 3, 8, 6, 8, 5, 9, 4, 11, 2, 0>>,
           <<0, 0, 2, 1, 5, 7, 5, 13, 15, 2, 5, 15, 6, 10, 3, 6, 0>>,
           <<0, 0, 1, 9, 0, 1, 8, 6, 7, 5, 12, 7, 8, 15, 10, 8, 0>>,
           <<0, 0, 1, 3, 7, 2, 15, 6, 12, 13, 6, 2, 5, 3, 4, 10, 0>>,
           <<0, 0, 0, 15, 8, 15, 2, 11, 13, 7, 8, 1, 13, 12, 3, 11, 8>>,
           <<0, 0, 0, 12, 11, 10, 15, 5, 5, 3, 3, 11, 11, 4, 3, 0, 8>>,
           <<0, 0, 0, 10, 9, 11, 12, 12, 7, 0, 0, 7, 1, 6, 2, 8, 8>>,
           <<0, 0, 0, 8, 15, 9, 15, 11, 12, 1, 4, 1, 1, 2, 11, 15, 8>>,
           <<0, 0, 0, 7, 11, 1, 11, 3, 3, 7, 14, 14, 10, 2, 5, 11, 8>>,
           <<0, 0, 0, 6, 10, 11, 1, 2, 12, 10, 1, 3, 1, 5, 3, 14, 4>>,
           <<0, 0, 0, 5, 13, 5, 11, 0, 7, 0, 13, 0, 11, 2, 9, 6, 4>>,
           <<0, 0, 0, 5, 2, 5, 15, 6, 0, 9, 3, 0, 9, 13, 9, 3, 8>>>>)

(* The three limbs of the 68 bits that 17 digits spell. *)
f64_limbs(digits) ==
    <<((((((digits[1] * 16) + digits[2]) * 16) + digits[3]) * 16) + digits[4]) * 16
          + digits[5],
      ((((((((digits[6] * 16) + digits[7]) * 16) + digits[8]) * 16) + digits[9]) * 16)
          + digits[10]) * 16 + digits[11],
      ((((((((digits[12] * 16) + digits[13]) * 16) + digits[14]) * 16) + digits[15]) * 16)
          + digits[16]) * 16 + digits[17]>>

density(point, limit) == f64_limbs(DensityDigits[limit][point])

f64_zero == <<0, 0, 0>>

(* The sum of two values, all of its bits kept. *)
ExactSum(a, b) ==
    LET lo == a[3] + b[3]
        mid == a[2] + b[2] + (lo \div Limb)
        hi == a[1] + b[1] + (mid \div Limb)
    IN  <<hi, mid % Limb, lo % Limb>>

RECURSIVE BitLen(_)
BitLen(n) == IF n = 0 THEN 0 ELSE 1 + BitLen(n \div 2)

(* Rounding to the 53 significant bits of an f64, ties to even.  At most *)
(* 12 bits go, all of them in the low limb.                              *)
RoundToF64(x) ==
    LET len == IF x[1] # 0 THEN 48 + BitLen(x[1])
               ELSE IF x[2] # 0 THEN 24 + BitLen(x[2]) ELSE BitLen(x[3])
    IN  IF len <= 53 THEN x
        ELSE LET ulp == 2 ^ (len - 53)
                 rest == x[3] % ulp
                 kept == <<x[1], x[2], x[3] - rest>>
                 odd == (x[3] \div ulp) % 2 = 1
             IN  IF (2 * rest > ulp) \/ (2 * rest = ulp /\ odd)
                 THEN ExactSum(kept, <<0, 0, ulp>>)
                 ELSE kept

(* a + b of two f64. *)
f64_add(a, b) == RoundToF64(ExactSum(a, b))

(* a < b of two f64. *)
f64_lt(a, b) ==
    \/ a[1] < b[1]
    \/ a[1] = b[1] /\ a[2] < b[2]
    \/ a[1] = b[1] /\ a[2] = b[2] /\ a[3] < b[3]

(* The loop of Distribution::new from point i on; the table is the Vec *)
(* with its index 0 at position 1.                                     *)
RECURSIVE CumulativeTable(_, _, _, _)
CumulativeTable(limit, i, cumulative_probability, lookup_table) ==
    IF i > limit THEN lookup_table
    ELSE LET sum == f64_add(cumulative_probability, density(i, limit))
         IN  CumulativeTable(limit, i + 1, sum, Append(lookup_table, sum))

Distribution_new(limit) == CumulativeTable(limit, 1, f64_zero, <<f64_zero>>)

(* The loop of Distribution::query from i on; running off its end is the *)
(* panic "Cumulative probabilities don't sum to 1!".                     *)
RECURSIVE QueryFrom(_, _, _, _)
QueryFrom(cumulative_probability_table, limit, selector, i) ==
    IF i > limit THEN [panic |-> TRUE, value |-> 0]
    ELSE IF f64_lt(selector, cumulative_probability_table[i + 1])
         THEN [panic |-> FALSE, value |-> i]
         ELSE QueryFrom(cumulative_probability_table, limit, selector, i + 1)

Distribution_query(cumulative_probability_table, limit, selector) ==
    QueryFrom(cumulative_probability_table, limit, selector, 1)

(* Values of next_f64, which are multiples of 2^-52 in [0, 1): the       *)
(* multiples j / 64, the eight highest, 1 - j * 2^-52, and around every  *)
(* entry of every table the multiple at or below it and its two          *)
(* neighbours, so that each degree a table can yield has a draw.          *)
f64_one == <<2 ^ 16, 0, 0>>

Grid == 2 ^ 12

next_f64_sixtyfourths(j) == <<j * (2 ^ 10), 0, 0>>

next_f64_below_one(j) == <<(2 ^ 16) - 1, Limb - 1, Limb - (j * Grid)>>

(* The multiple of 2^-52 at or below x. *)
GridFloor(x) == <<x[1], x[2], x[3] - (x[3] % Grid)>>

(* The multiple of 2^-52 below the multiple g, or g itself for 0. *)
GridBelow(g) ==
    IF g[3] >= Grid THEN <<g[1], g[2], g[3] - Grid>>
    ELSE IF g[2] > 0 THEN <<g[1], g[2] - 1, (g[3] + Limb) - Grid>>
    ELSE IF g[1] > 0 THEN <<g[1] - 1, Limb - 1, (g[3] + Limb) - Grid>>
    ELSE g

GridAbove(g) == ExactSum(g, <<0, 0, Grid>>)

next_f64_around(entry) ==
    {x \in {GridBelow(GridFloor(entry)), GridFloor(entry),
            GridAbove(GridFloor(entry))} : f64_lt(x, f64_one)}

next_f64_table(limit) ==
    UNION {next_f64_around(Distribution_new(limit)[i]) : i \in 1..(limit + 1)}

next_f64 ==
    {next_f64_sixtyfourths(j) : j \in 0..63}
        \cup {next_f64_below_one(j) : j \in 1..8}
        \cup UNION {next_f64_table(limit) : limit \in QueryLimits}

(* A Source of limit blocks, its Distribution built over block_count. *)
InitQuery ==
    /\ data \in {Blob(limit * BLOCK_BYTES, 0) : limit \in QueryLimits}
    /\ metadata = Len(data)
    /\ blocks = SourceBlocks(data)
    /\ block_count = BlockCount(metadata)
    /\ decoded_blocks = <<>>
    /\ stale_packets = {}
    /\ fresh_packets = <<>>
    /\ ret = NoRet
    /\ calls = 0
    /\ delivered = {}
    /\ prev = <<>>
    /\ lt_packet = <<>>
    /\ wire = <<>>
    /\ relayed = {}
    /\ client_b = LtClientB

(* One call of query: ret.bytes is the selector drawn, ret.num the value *)
(* returned, ret.some whether query returned at all.                     *)
Query ==
    /\ ret.op = "none"
    /\ LET cumulative_probability_table == Distribution_new(block_count)
       IN  \E selector \in next_f64 :
              LET r == Distribution_query(cumulative_probability_table,
                                          block_count, selector)
              IN  ret' = Ret("query", ~r.panic, NoPacket, selector, r.value, 1)
    /\ UNCHANGED <<data, metadata, blocks, block_count, decoded_blocks,
                   stale_packets, fresh_packets, calls, delivered, prev,
                   lt_packet, wire, relayed, client_b>>

NextQuery == Query

SpecQuery == InitQuery /\ [][NextQuery]_vars

-----------------------------------------------------------------------------
(* Block XOR (lt.rs:277-293) on the blocks of a Source of three blocks. *)

XorBlocks ==
    {[i \in 1..BLOCK_BYTES |-> (s + (i * t)) % 256] :
        s \in {0, 85, 255}, t \in {0, 1, 127}}

RECURSIVE Concat(_)
Concat(seqs) == IF seqs = <<>> THEN <<>> ELSE Head(seqs) \o Concat(Tail(seqs))

InitXor ==
    /\ data \in {Concat(<<a, b, c>>) : a \in XorBlocks, b \in XorBlocks, c \in XorBlocks}
    /\ metadata = Len(data)
    /\ blocks = SourceBlocks(data)
    /\ block_count = BlockCount(metadata)
    /\ decoded_blocks = <<>>
    /\ stale_packets = {}
    /\ fresh_packets = <<>>
    /\ ret = NoRet
    /\ calls = 0
    /\ delivered = {}
    /\ prev = <<>>
    /\ lt_packet = <<>>
    /\ wire = <<>>
    /\ relayed = {}
    /\ client_b = LtClientB

(* lhs ^ rhs of two blocks of the Source; ret.packet names them and *)
(* holds the result.                                                *)
BitXor ==
    /\ ret.op = "none"
    /\ \E i \in DOMAIN blocks, j \in DOMAIN blocks :
          ret' = Ret("bitxor", TRUE,
                     LtPacketNew(<<i, j>>, bitxor(blocks[i], blocks[j])),
                     <<>>, 0, 1)
    /\ UNCHANGED <<data, metadata, blocks, block_count, decoded_blocks,
                   stale_packets, fresh_packets, calls, delivered, prev,
                   lt_packet, wire, relayed, client_b>>

NextXor == BitXor

SpecXor == InitXor /\ [][NextXor]_vars

-----------------------------------------------------------------------------
(* The calls of robustness_probability_to_add that Distribution::new makes  *)
(* while LtClient::new builds a Client of limit blocks.                     *)

RobustPoints(limit) ==
    {p \in (1..16) \cup {430, 512}
             \cup {SwitchPoints[limit] - 1, SwitchPoints[limit], SwitchPoints[limit] + 1} :
        p >= 1 /\ p <= limit}

(* The caller has the Metadata of limit blocks; no Client exists yet. *)
InitRobust ==
    /\ data = <<>>
    /\ metadata \in {limit * BLOCK_BYTES : limit \in RobustLimits}
    /\ blocks = <<>>
    /\ block_count = 0
    /\ decoded_blocks = <<>>
    /\ stale_packets = {}
    /\ fresh_packets = <<>>
    /\ ret = NoRet
    /\ calls = 0
    /\ delivered = {}
    /\ prev = <<>>
    /\ lt_packet = <<>>
    /\ wire = <<>>
    /\ relayed = {}
    /\ client_b = LtClientB

(* Whether Distribution::new gets as far as the call for this point: the *)
(* calls go through the points in rising order (distributions.rs:23, 118), *)
(* and a build with overflow checks stops at the first point whose       *)
(* product overflows.                                                    *)
PointReached(point, limit, overflow_checks) ==
    LET below == Min(point - 1, SwitchPoints[limit] - 1)
    IN  (overflow_checks /\ below >= 1) =>
            ~u32_mul(u32_digits(below), u32_digits(limit)).overflow

(* One call that Distribution::new makes inside LtClient::new(metadata);  *)
(* ret.num is the point, ret.bytes the u32 product that was divided by,  *)
(* ret.some whether the call returned.                                   *)
RobustnessProbabilityToAdd ==
    /\ ret.op = "none"
    /\ LET limit == BlockCount(metadata)
       IN  \E point \in RobustPoints(limit), overflow_checks \in BOOLEAN :
             /\ PointReached(point, limit, overflow_checks)
             /\ LET r == robustness_probability_to_add(point, limit, overflow_checks)
                IN  ret' = [op |-> "robustness_probability_to_add",
                            some |-> ~r.panic, branch |-> r.branch,
                            packet |-> NoPacket, bytes |-> r.product,
                            num |-> point, den |-> 1]
    /\ UNCHANGED <<data, metadata, blocks, block_count, decoded_blocks,
                   stale_packets, fresh_packets, calls, delivered, prev,
                   lt_packet, wire, relayed, client_b>>

(* Distribution::new(density_function, block_count) as a whole, called by *)
(* LtClient::new (lt.rs:126): the Client exists once it has returned Ok.  *)
DistributionNew ==
    /\ ret.op = "none"
    /\ LET limit == BlockCount(metadata)
       IN  \E rng_ok \in BOOLEAN, overflow_checks \in BOOLEAN, alloc_ok \in BOOLEAN :
             LET r == Distribution_new_outcome(u64(limit), rng_ok,
                                               overflow_checks, alloc_ok)
             IN  /\ block_count' = IF r = "Ok" THEN limit ELSE block_count
                 /\ ret' = RetNew("Distribution::new",
                                  IF r = "Ok" THEN Created(<<>>)
                                  ELSE IF r = "Err"
                                  THEN CreationError("RandomInitializationError")
                                  ELSE Panic(r))
    /\ UNCHANGED <<data, metadata, blocks, decoded_blocks, stale_packets,
                   fresh_packets, calls, delivered, prev, lt_packet, wire,
                   relayed, client_b>>

NextRobust ==
    \/ RobustnessProbabilityToAdd
    \/ DistributionNew

SpecRobust == InitRobust /\ [][NextRobust]_vars

-----------------------------------------------------------------------------
(* A relay: Source -> Client A -> Client B.  Client A is the LtClient of   *)
(* the variables decoded_blocks, stale_packets and fresh_packets; it        *)
(* receives only packets of the Source's create_packet.  Client B is a      *)
(* second LtClient of the same Metadata; it receives only packets that      *)
(* Client A's try_create_packet returned.  A packet on its way to Client B  *)
(* may be delivered late, more than once, or never.                         *)

MaxRelayBytes == 4
MaxRelayCalls == 2

InitRelay ==
    /\ Init
    /\ Len(data) <= MaxRelayBytes

(* The caller hands Client A the packet the Source has just returned. *)
RelayReceive ==
    /\ calls < MaxCalls
    /\ ret.op = "create_packet"
    /\ Receive(ret.packet)
    /\ UNCHANGED <<delivered, prev, relayed, client_b>>

(* The caller sends on the packet Client A has just returned. *)
Relay ==
    /\ ret.op = "try_create_packet"
    /\ ret.some
    /\ ret.packet \notin relayed
    /\ relayed' = relayed \cup {ret.packet}
    /\ UNCHANGED <<data, metadata, blocks, block_count, decoded_blocks,
                   stale_packets, fresh_packets, ret, calls, delivered, prev,
                   lt_packet, wire, client_b>>

(* Client B's receive_packet starts with the worklist vec![packet]        *)
(* (lt.rs:168).                                                           *)
ReceiveB ==
    /\ client_b.fresh_packets = <<>>
    /\ client_b.calls < MaxRelayCalls
    /\ \E packet \in relayed :
          client_b' = [client_b EXCEPT !.fresh_packets = <<packet>>,
                                       !.calls = @ + 1]
    /\ UNCHANGED <<data, metadata, blocks, block_count, decoded_blocks,
                   stale_packets, fresh_packets, ret, calls, delivered, prev,
                   lt_packet, wire, relayed>>

(* One iteration of the while loop (lt.rs:171-225) in Client B. *)
LoopStepB ==
    /\ client_b.fresh_packets # <<>>
    /\ LET fresh == client_b.fresh_packets
           packet == fresh[Len(fresh)]
           rest == SubSeq(fresh, 1, Len(fresh) - 1)
           sc == Scan(client_b.decoded_blocks, packet.combined_blocks,
                      <<>>, <<>>)
       IN  IF sc.multiple_remaining \/ sc.remainder = <<>>
           THEN client_b' =
                    [client_b EXCEPT
                        !.stale_packets = @ \cup {packet},
                        !.fresh_packets = rest]
           ELSE LET block_id == sc.remainder[1]
                IN  IF block_id \notin DOMAIN client_b.decoded_blocks
                    THEN \E refreshed_packets \in
                              Orders(Refreshed(client_b.stale_packets,
                                               block_id)) :
                           client_b' =
                               [client_b EXCEPT
                                   !.decoded_blocks =
                                       Insert(@, block_id,
                                              reconstruct(packet, sc.xor, @)),
                                   !.stale_packets =
                                       @ \ Refreshed(@, block_id),
                                   !.fresh_packets =
                                       rest \o refreshed_packets]
                    ELSE client_b' = [client_b EXCEPT !.fresh_packets = rest]
    /\ UNCHANGED <<data, metadata, blocks, block_count, decoded_blocks,
                   stale_packets, fresh_packets, ret, calls, delivered, prev,
                   lt_packet, wire, relayed>>

NextRelay ==
    \/ CreatePacket
    \/ RelayReceive
    \/ LoopStep
    \/ TryCreatePacket
    \/ Relay
    \/ ReceiveB
    \/ LoopStepB

SpecRelay == InitRelay /\ [][NextRelay]_vars

-----------------------------------------------------------------------------
(* Properties. *)

(* The ids of p that are not decoded. *)
Undecoded(p) == Range(p.combined_blocks) \ DOMAIN decoded_blocks

(* XOR of lookup[i] over a set of ids, in no particular order. *)
RECURSIVE XorOfSet(_, _)
XorOfSet(S, lookup) ==
    IF S = {} THEN BlockNew
    ELSE LET i == CHOOSE x \in S : TRUE
         IN  bitxor(lookup[i], XorOfSet(S \ {i}, lookup))

Distinct(ids) == Cardinality(Range(ids)) = Len(ids)

(* C1: whenever get_result() returns Some(bytes) on a Client fed only      *)
(* packets of the Source's create_packet, bytes is the original input:     *)
(* same length, padding of the last block removed.                         *)
DecoderSoundness ==
    (ret.op = "get_result" /\ ret.some) => ret.bytes = data

DecoderSoundnessWitness ==
    /\ ret.op = "get_result"
    /\ ret.some
    /\ block_count >= 2
    /\ metadata % BLOCK_BYTES # 0

(* C2: every entry of decoded_blocks is the true zero-padded source block  *)
(* of its id, in every state of a Client fed well-formed packets.          *)
DecodedBlocksTrue ==
    \A i \in DOMAIN decoded_blocks :
        i \in DOMAIN blocks /\ decoded_blocks[i] = blocks[i]

DecodedBlocksTrueWitness ==
    /\ Idle
    /\ block_count >= 2
    /\ DOMAIN decoded_blocks = DOMAIN blocks
    /\ Cardinality({p \in delivered : Len(p.combined_blocks) = 1}) = 1

(* C3: after every return of receive_packet, every packet in stale_packets *)
(* has at least two ids that are absent from decoded_blocks.               *)
StaleHasTwoUndecoded ==
    Idle => \A p \in stale_packets : Cardinality(Undecoded(p)) >= 2

(* C4: delivering the packet of the call before once more leaves           *)
(* decoded_blocks and stale_packets as that call left them.                *)
DecoderIdempotence ==
    (Idle /\ prev # <<>> /\ prev[4]) =>
        (decoded_blocks = prev[2] /\ stale_packets = prev[3])

(* The ids a peeling decoder recovers from a set P of packets, given the   *)
(* ids D it has: every packet with exactly one id outside D yields that    *)
(* id, until no packet does.  It depends on the set P alone.               *)
RECURSIVE Peel(_, _)
Peel(D, P) ==
    LET ready == {p \in P : Cardinality(Range(p.combined_blocks) \ D) = 1}
    IN  IF ready = {} THEN D
        ELSE Peel(D \cup UNION {Range(p.combined_blocks) \ D : p \in ready}, P)

(* C5: after the return of receive_packet the decoded map (keys and block  *)
(* values) is determined by the set of well-formed packets delivered so    *)
(* far, whatever the order of their delivery.                              *)
OrderIndependence ==
    Idle => decoded_blocks = [i \in Peel({}, delivered) |-> blocks[i]]

OrderIndependenceWitness ==
    /\ Idle
    /\ Cardinality(delivered) = 3
    /\ DOMAIN decoded_blocks = 0..2
    /\ Cardinality({p \in delivered : Len(p.combined_blocks) = 2}) = 2

ProgressLeq(a, b) == a.num * b.den <= b.num * a.den

(* C6: decoding_progress() returns |decoded_blocks| / block_count, and no  *)
(* step of the Client lowers it.                                           *)
DecoderMonotonicity ==
    [][/\ ProgressLeq(decoding_progress(decoded_blocks, block_count),
                      decoding_progress(decoded_blocks', block_count'))
       /\ ret'.op = "decoding_progress" =>
            /\ ret'.num = Cardinality(DOMAIN decoded_blocks')
            /\ ret'.den = block_count']_vars

DecoderMonotonicityWitness ==
    /\ ret.op = "decoding_progress"
    /\ calls >= 2
    /\ 0 < ret.num
    /\ ret.num < ret.den

(* C7: get_result() returns None when fewer than block_count blocks are    *)
(* decoded or an id of 0..block_count-1 is missing, even with block_count  *)
(* or more entries; otherwise Some of decoded[0], ..., decoded[K-1]        *)
(* concatenated and cut to data_bytes bytes.                               *)
GetResultContract ==
    ret.op = "get_result" =>
        IF \/ Cardinality(DOMAIN decoded_blocks) < block_count
           \/ \E i \in 0..(block_count - 1) : i \notin DOMAIN decoded_blocks
        THEN ~ret.some
        ELSE /\ ret.some
             /\ ret.bytes =
                  [n \in 1..metadata |->
                      decoded_blocks[(n - 1) \div BLOCK_BYTES][((n - 1) % BLOCK_BYTES) + 1]]

GetResultContractWitness ==
    /\ ret.op = "get_result"
    /\ ~ret.some
    /\ Cardinality(DOMAIN decoded_blocks) >= block_count

(* C8: every packet create_packet returns has a degree in 1..K, pairwise   *)
(* distinct ids in 0..K-1 and, as combined block, the XOR of the source    *)
(* blocks of exactly those ids.                                            *)
CreatePacketWellFormed ==
    ret.op = "create_packet" =>
        LET ids == ret.packet.combined_blocks
        IN  /\ 1 <= Len(ids)
            /\ Len(ids) <= Cardinality(DOMAIN blocks)
            /\ Distinct(ids)
            /\ Range(ids) \subseteq DOMAIN blocks
            /\ ret.packet.data = XorOfSet(Range(ids), blocks)

CreatePacketWellFormedWitness ==
    /\ ret.op = "create_packet"
    /\ Len(ret.packet.combined_blocks) = 2
    /\ ret.packet.combined_blocks[1] > ret.packet.combined_blocks[2]
    /\ block_count = 3

(* C9: try_create_packet() returns None exactly when decoded_blocks is     *)
(* empty; otherwise a packet of pairwise distinct keys of decoded_blocks,  *)
(* of a degree in 1..|decoded_blocks|, combining the decoded blocks of     *)
(* those ids.                                                              *)
TryCreatePacketContract ==
    ret.op = "try_create_packet" =>
        /\ ret.some <=> (DOMAIN decoded_blocks # {})
        /\ ret.some =>
             LET ids == ret.packet.combined_blocks
             IN  /\ 1 <= Len(ids)
                 /\ Len(ids) <= Cardinality(DOMAIN decoded_blocks)
                 /\ Distinct(ids)
                 /\ Range(ids) \subseteq DOMAIN decoded_blocks
                 /\ ret.packet.data = XorOfSet(Range(ids), decoded_blocks)

TryCreatePacketContractWitness ==
    /\ ret.op = "try_create_packet"
    /\ ret.some
    /\ Cardinality(DOMAIN decoded_blocks) = 2
    /\ block_count = 3
    /\ Len(ret.packet.combined_blocks) = 1

(* C10: from_bytes(to_bytes(p)) succeeds and returns p, ids in the same    *)
(* order, for every id list and payload.                                   *)
PacketRoundTrip ==
    (ret.op = "from_bytes" /\ wire = to_bytes(lt_packet[1])) =>
        (ret.some /\ ret.packet = lt_packet[1])

PacketRoundTripWitness ==
    /\ ret.op = "from_bytes"
    /\ ret.some
    /\ Len(ret.packet.combined_blocks) = 2
    /\ ret.packet.combined_blocks[1] = 2147483647
    /\ ret.packet.combined_blocks[2] = 256
    /\ ret.packet.data # BlockNew


(* The u32 that four bytes at positions pos..pos+3 spell, big-endian. *)
BigEndianAt(w, pos) ==
    (((((w[pos] * 256) + w[pos + 1]) * 256) + w[pos + 2]) * 256) + w[pos + 3]

IsStrictPrefix(v, w) == Len(v) < Len(w) /\ v = SubSeq(w, 1, Len(v))

(* C11: to_bytes(p) is exactly 4 + 4n + BLOCK_BYTES bytes, the big-endian  *)
(* count, the big-endian ids in order, then the payload; from_bytes of any *)
(* strict prefix of it, the empty vector included, is an error.            *)
CodecFraming ==
    LET p == lt_packet[1]
        n == Len(p.combined_blocks)
    IN  /\ ret.op = "to_bytes" =>
             /\ Len(wire) = 4 + (4 * n) + BLOCK_BYTES
             /\ \A i \in 1..Len(wire) : wire[i] \in 0..255
             /\ BigEndianAt(wire, 1) = n
             /\ \A k \in 1..n : BigEndianAt(wire, (4 * k) + 1) = p.combined_blocks[k]
             /\ \A i \in 1..BLOCK_BYTES : wire[4 + (4 * n) + i] = p.data[i]
        /\ (ret.op = "from_bytes" /\ IsStrictPrefix(wire, to_bytes(p))) => ~ret.some

CodecFramingWitness ==
    /\ ret.op = "from_bytes"
    /\ ~ret.some
    /\ Len(lt_packet[1].combined_blocks) = 2
    /\ Len(wire) = 4 + 8 + BLOCK_BYTES - 1


(* k = ceil(n / b), stated by what it means: k * b >= n > (k - 1) * b. *)
IsCeilDiv(k, n, b) ==
    /\ ~u64_lt(u64_mul(k, b), n)
    /\ u64_lt(u64_mul(k, b), u64_add(n, b))

(* ceil(n / BLOCK_BYTES) > 2^32 - 1, that is n > (2^32 - 1) * BLOCK_BYTES. *)
TooBig(n) == u64_lt(u64_mul(u32_max_value, BLOCK_BYTES), n)

IsErr(op, kind) == ret.op = op /\ ~ret.some /\ ret.error = kind

(* C12: the construction checks, in the order the claim lists them.      *)
(* LtSource::new returns DataZeroBytes when data_bytes = 0,               *)
(* InvalidMetadata when the buffer length differs from data_bytes, and    *)
(* DataTooBig when the block count exceeds u32::max_value();              *)
(* LtClient::new returns DataZeroBytes and DataTooBig under the same      *)
(* conditions. Whenever an error is returned no component is created;     *)
(* when no condition holds none of these three errors is returned.        *)
ConstructionErrorsInOrder ==
    /\ ret.op = "LtSource::new" =>
         /\ metadata = u64(0) => IsErr("LtSource::new", "DataZeroBytes")
         /\ (metadata # u64(0) /\ data.len # metadata) =>
                IsErr("LtSource::new", "InvalidMetadata")
         /\ (metadata # u64(0) /\ data.len = metadata /\ TooBig(metadata)) =>
                IsErr("LtSource::new", "DataTooBig")
         /\ (metadata # u64(0) /\ data.len = metadata /\ ~TooBig(metadata)) =>
                (\/ ret.some
                 \/ IsErr("LtSource::new", "RandomInitializationError")
                 \/ ret.panic # "")
         /\ ~ret.some => blocks = NoBlocks
         /\ ret.some => /\ blocks = SourceBlocksOfVec(data)
                        /\ blocks # NoBlocks
                        /\ IsCeilDiv(blocks.count, data.len, BLOCK_BYTES)
    /\ ret.op = "LtClient::new" =>
         /\ metadata = u64(0) => IsErr("LtClient::new", "DataZeroBytes")
         /\ (metadata # u64(0) /\ TooBig(metadata)) =>
                IsErr("LtClient::new", "DataTooBig")
         /\ (metadata # u64(0) /\ ~TooBig(metadata)) =>
                (\/ ret.some
                 \/ IsErr("LtClient::new", "RandomInitializationError")
                 \/ ret.panic # "")
         /\ ~ret.some => block_count = u64(0)
         /\ ret.some => IsCeilDiv(block_count, metadata, BLOCK_BYTES)

ConstructionErrorsInOrderWitness ==
    /\ IsErr("LtSource::new", "InvalidMetadata")
    /\ metadata # u64(0)
    /\ ~TooBig(metadata)
    /\ data.len # metadata
    /\ blocks = NoBlocks

(* C13: Metadata::new of 0 fails with DataZeroBytes and of a size whose   *)
(* block count exceeds u32::max_value() fails with DataTooBig, so that no *)
(* Metadata with data_bytes = 0 or such a block count comes out of it.    *)
MetadataValidates ==
    ret.op = "Metadata::new" =>
        IF ret.bytes = u64(0) \/ TooBig(ret.bytes)
        THEN ~ret.some
        ELSE ret.some /\ metadata = ret.bytes

(* C14: for every n in 1..2^32 * BLOCK_BYTES the Metadata of n is         *)
(* constructed and gives n back as data_bytes(), and the block count      *)
(* n / B + min(n % B, 1) of Source and Client is ceil(n / B);             *)
(* BLOCK_BYTES bytes are 1 block and BLOCK_BYTES + 1 bytes are 2.         *)
MetadataRoundTrip ==
    /\ (ret.op = "Metadata::new" /\ ret.bytes # u64(0)
          /\ ~u64_lt(u64_mul(<<256, 0>>, BLOCK_BYTES), ret.bytes)) =>
         /\ ret.some
         /\ metadata = ret.bytes
         /\ IsCeilDiv(BlockCountU64(metadata), metadata, BLOCK_BYTES)
    /\ (ret.op = "LtSource::new" /\ ret.some) =>
         IsCeilDiv(blocks.count, metadata, BLOCK_BYTES)
    /\ (ret.op = "LtClient::new" /\ ret.some) =>
         IsCeilDiv(block_count, metadata, BLOCK_BYTES)
    /\ BlockCountU64(u64(BLOCK_BYTES)) = u64(1)
    /\ BlockCountU64(u64(BLOCK_BYTES + 1)) = u64(2)

MetadataRoundTripWitness ==
    /\ ret.op = "Metadata::new"
    /\ metadata = u64_mul(<<256, 0>>, BLOCK_BYTES)
    /\ BlockCountU64(metadata) = <<256, 0>>


(* The source bytes followed by zeroes up to BLOCK_BYTES. *)
ZeroPadded(d) == [i \in 1..BLOCK_BYTES |-> IF i <= Len(d) THEN d[i] ELSE 0]

(* C15: for a blob of 1..BLOCK_BYTES bytes (one block) every packet of    *)
(* create_packet has ids = [0] and the zero-padded source as its block,   *)
(* and once such a packet has been received get_result is Some(data).     *)
SingleBlock ==
    (Len(data) \in 1..BLOCK_BYTES) =>
        /\ block_count = 1
        /\ ret.op = "create_packet" =>
             /\ ret.packet.combined_blocks = <<0>>
             /\ ret.packet.data = ZeroPadded(data)
        /\ (ret.op = "get_result" /\ calls >= 1) =>
             /\ ret.some
             /\ ret.bytes = data

SingleBlockWitness ==
    /\ Len(data) \in 1..(BLOCK_BYTES - 1)
    /\ \E i \in 1..Len(data) : data[i] # 0
    /\ calls = 1
    /\ ret.op = "get_result"
    /\ ret.some
    /\ ret.bytes = data

(* C17: decoding_progress, get_result and try_create_packet leave         *)
(* decoded_blocks and stale_packets as they are, create_packet leaves the *)
(* source blocks as they are, and decoded_blocks and stale_packets change *)
(* only in a step of receive_packet.                                      *)
ReadOnlyQueries ==
    [][/\ (ret' # ret /\ ret'.op \in {"decoding_progress", "get_result",
                                      "try_create_packet", "create_packet"}) =>
              /\ decoded_blocks' = decoded_blocks
              /\ stale_packets' = stale_packets
              /\ fresh_packets' = fresh_packets
              /\ blocks' = blocks
       /\ blocks' = blocks
       /\ (decoded_blocks' # decoded_blocks \/ stale_packets' # stale_packets) =>
              /\ fresh_packets # <<>>
              /\ ret.op = "receive_packet"
              /\ ret' = ret]_vars

ReadOnlyQueriesWitness ==
    /\ ret.op = "try_create_packet"
    /\ ret.some
    /\ stale_packets # {}
    /\ decoded_blocks # <<>>

(* C18: a step of receive_packet on a packet all of whose ids are decoded *)
(* drops the packet: stale_packets and decoded_blocks stay as they are.   *)
RedundantDiscarded ==
    [][(fresh_packets # <<>>
          /\ Undecoded(fresh_packets[Len(fresh_packets)]) = {}) =>
            /\ stale_packets' = stale_packets
            /\ decoded_blocks' = decoded_blocks]_vars

(* C19: a step that decodes block r takes every stale packet that holds r *)
(* out of stale_packets and onto the worklist of the same call, and when  *)
(* receive_packet returns no stale packet has exactly one undecoded id;   *)
(* the packets {0,1}, {1,2}, {0} leave all three blocks decoded and       *)
(* nothing stale.                                                         *)
CascadeCompleteness ==
    /\ [](Idle => \A p \in stale_packets : Cardinality(Undecoded(p)) # 1)
    /\ [](( /\ Idle
            /\ calls = 3
            /\ {Range(p.combined_blocks) : p \in delivered} = {{0, 1}, {1, 2}, {0}})
           => (DOMAIN decoded_blocks = {0, 1, 2} /\ stale_packets = {}))
    /\ [][\A r \in (DOMAIN decoded_blocks') \ (DOMAIN decoded_blocks) :
            \A p \in stale_packets :
               r \in Range(p.combined_blocks) =>
                  /\ p \notin stale_packets'
                  /\ p \in Range(fresh_packets')]_vars

CascadeCompletenessWitness ==
    /\ Idle
    /\ calls = 3
    /\ {Range(p.combined_blocks) : p \in delivered} = {{0, 1}, {1, 2}, {0}}
    /\ prev[1].combined_blocks = <<0>>
    /\ DOMAIN decoded_blocks = {0, 1, 2}
    /\ stale_packets = {}


(* C20: once receive_packet is called its worklist empties and the call  *)
(* returns; an iteration that decodes no new block takes its packet off  *)
(* the worklist and pushes none.                                         *)
ReceiveTerminates ==
    /\ (fresh_packets # <<>>) ~> (fresh_packets = <<>>)
    /\ [][fresh_packets # <<>> =>
            \/ /\ DOMAIN decoded_blocks \subseteq DOMAIN decoded_blocks'
               /\ DOMAIN decoded_blocks' # DOMAIN decoded_blocks
            \/ /\ decoded_blocks' = decoded_blocks
               /\ fresh_packets' =
                     SubSeq(fresh_packets, 1, Len(fresh_packets) - 1)]_vars

(* The loop is about to take a packet that a newly decoded block has *)
(* brought back from the stale pool.                                 *)
ReceiveTerminatesWitness ==
    /\ fresh_packets # <<>>
    /\ ret.op = "receive_packet"
    /\ fresh_packets[Len(fresh_packets)] # ret.packet
    /\ Cardinality(Undecoded(fresh_packets[Len(fresh_packets)])) = 1
    /\ decoded_blocks # <<>>


(* C16: for every limit and every draw of next_f64, query returns the    *)
(* smallest d in 1..limit whose table entry exceeds the draw; it returns *)
(* for every draw and never runs off the end of the table.               *)
DegreeInRange ==
    ret.op = "query" =>
        /\ ret.some
        /\ ret.num \in 1..block_count
        /\ LET T == Distribution_new(block_count)
           IN  /\ f64_lt(ret.bytes, T[ret.num + 1])
               /\ \A d \in 1..(ret.num - 1) : ~f64_lt(ret.bytes, T[d + 1])


(* C22: no step of receive_packet, whatever the packet, removes an id    *)
(* from decoded_blocks or changes its block, and once get_result is      *)
(* Some(bytes) it is the same Some(bytes) after every further step.      *)
WriteOnce ==
    [][/\ \A i \in DOMAIN decoded_blocks :
             /\ i \in DOMAIN decoded_blocks'
             /\ decoded_blocks'[i] = decoded_blocks[i]
       /\ get_result(decoded_blocks, block_count, metadata).some =>
             get_result(decoded_blocks', block_count', metadata') =
                get_result(decoded_blocks, block_count, metadata)]_vars

(* get_result is Some in a Client that has also decoded an id outside *)
(* 0..block_count-1 from a malformed packet.                          *)
WriteOnceWitness ==
    /\ Idle
    /\ calls >= 2
    /\ ret.op = "receive_packet"
    /\ get_result(decoded_blocks, block_count, metadata).some
    /\ Cardinality(DOMAIN decoded_blocks) > block_count
    /\ \E i \in Range(ret.packet.combined_blocks) : i < block_count


(* Bit k of a byte. *)
BitOf(byte, k) == (byte \div (2 ^ k)) % 2

(* C25: b ^ zero = b and b ^ b = zero for every block b; ^ works byte by *)
(* byte (bit k of byte n of lhs ^ rhs is the sum modulo 2 of bit k of    *)
(* byte n of lhs and of rhs), and is commutative and associative, so the *)
(* combined block of a packet is the same for every order of its ids.    *)
BlockXorLaws ==
    /\ \A i \in DOMAIN blocks :
          /\ bitxor(blocks[i], BlockNew) = blocks[i]
          /\ bitxor(BlockNew, blocks[i]) = blocks[i]
          /\ bitxor(blocks[i], blocks[i]) = BlockNew
    /\ \A i \in DOMAIN blocks, j \in DOMAIN blocks :
          /\ bitxor(blocks[i], blocks[j]) = bitxor(blocks[j], blocks[i])
          /\ \A k \in DOMAIN blocks :
                bitxor(bitxor(blocks[i], blocks[j]), blocks[k]) =
                   bitxor(blocks[i], bitxor(blocks[j], blocks[k]))
    /\ ret.op = "bitxor" =>
          LET lhs == blocks[ret.packet.combined_blocks[1]]
              rhs == blocks[ret.packet.combined_blocks[2]]
          IN  /\ DOMAIN ret.packet.data = 1..BLOCK_BYTES
              /\ \A n \in 1..BLOCK_BYTES :
                    /\ ret.packet.data[n] \in 0..255
                    /\ \A k \in 0..7 :
                          BitOf(ret.packet.data[n], k) =
                             (BitOf(lhs[n], k) + BitOf(rhs[n], k)) % 2
    /\ \A ids \in Orders(DOMAIN blocks) :
          XorAll(BlockNew, ids, blocks) = XorOfSet(DOMAIN blocks, blocks)

BlockXorLawsWitness ==
    /\ ret.op = "bitxor"
    /\ ret.packet.combined_blocks = <<0, 2>>
    /\ blocks[0] # blocks[2]
    /\ blocks[0] # BlockNew
    /\ blocks[2] # BlockNew
    /\ \E n \in 1..BLOCK_BYTES : ret.packet.data[n] \notin {blocks[0][n], blocks[2][n], 0, 255}


(* The integer p * n for p below 2^15 and n below 2^31, as its 16-bit *)
(* limbs <<bits 32 and up, bits 16..31, bits 0..15>>.                 *)
ExactProduct(p, n) ==
    LET low == p * (n % (2 ^ 16))
        high == (p * (n \div (2 ^ 16))) + (low \div (2 ^ 16))
    IN  <<high \div (2 ^ 16), high % (2 ^ 16), low % (2 ^ 16)>>

(* C24: for 1 <= d < S the adjustment is R over the exact product d * K, *)
(* which the u32 multiplication yields without wrapping; at d = S it is  *)
(* R * ln(R / delta) / K; for d > S it is 0.                             *)
RobustAdjustment ==
    ret.op = "robustness_probability_to_add" =>
        LET d == ret.num
            S == SwitchPoints[BlockCount(metadata)]
            exact == ExactProduct(d, BlockCount(metadata))
        IN  /\ ret.some
            /\ d < S =>
                 /\ ret.branch = "ripple / product"
                 /\ exact[1] = 0
                 /\ ret.bytes = <<exact[2] \div 256, exact[2] % 256,
                                  exact[3] \div 256, exact[3] % 256>>
            /\ d = S => ret.branch = "ripple * ln(ripple / delta) / limit"
            /\ d > S => ret.branch = "0.0"


(* receive_packet has been called with the degree-1 packet of block i. *)
DeliveredAlone(i) ==
    /\ ret.op = "receive_packet"
    /\ ret.packet.combined_blocks = <<i>>

(* C21: if the degree-1 packet of every block is delivered again and     *)
(* again, as it is in a fair stream of the Source's packets, get_result  *)
(* becomes Some and stays Some.                                          *)
Convergence ==
    (\A i \in 0..(BlockCount(MaxStreamBytes) - 1) :
        []<>(i < block_count => DeliveredAlone(i)))
    => <>[](get_result(decoded_blocks, block_count, metadata).some)

ConvergenceWitness ==
    /\ block_count = BlockCount(MaxStreamBytes)
    /\ block_count >= 2
    /\ ret.op = "get_result"
    /\ ret.some
    /\ ret.bytes = data
    /\ stale_packets # {}


(* A packet that is well-formed with respect to the true source. *)
RelayWellFormed(p) ==
    /\ p.combined_blocks # <<>>
    /\ Distinct(p.combined_blocks)
    /\ Range(p.combined_blocks) \subseteq DOMAIN blocks
    /\ p.data = XorOfSet(Range(p.combined_blocks), blocks)

(* C23: in the relay Source -> Client A -> Client B, where A receives only *)
(* packets of the Source's create_packet and B only packets of A's         *)
(* try_create_packet, every packet A emits is well-formed with respect to  *)
(* the true source (distinct ids of source blocks, payload the XOR of      *)
(* those blocks), every block in B's decoded map equals the true source    *)
(* block, and B's decoded ids are a subset of A's decoded ids.             *)
RelaySoundness ==
    /\ (ret.op = "try_create_packet" /\ ret.some) => RelayWellFormed(ret.packet)
    /\ \A p \in relayed : RelayWellFormed(p)
    /\ \A i \in DOMAIN client_b.decoded_blocks :
          /\ i \in DOMAIN blocks
          /\ client_b.decoded_blocks[i] = blocks[i]
    /\ DOMAIN client_b.decoded_blocks \subseteq DOMAIN decoded_blocks

(* Client B has decoded every block, one of them from a packet of two ids *)
(* that Client A relayed.                                                 *)
RelaySoundnessWitness ==
    /\ block_count >= 2
    /\ DOMAIN client_b.decoded_blocks = 0..(block_count - 1)
    /\ \E p \in relayed : Len(p.combined_blocks) >= 2
    /\ client_b.stale_packets = {}
    /\ client_b.fresh_packets = <<>>

=============================================================================
